---- MODULE Spec2Model ----
(***************************************************************************)
(* Antigravity2api: the Token Pool Manager (auth/token_manager.js) and the *)
(* chat-completion handler (server/index.js), modelled as state machines.  *)
(*                                                                         *)
(* JavaScript runs one callback at a time, so every action below is the    *)
(* code between two suspension points (await) of one request.              *)
(***************************************************************************)
EXTENDS Integers, Sequences, FiniteSets, TLC

\* ---------------------------------------------------------------- bounds
MaxCreds == 2        \* distinct credentials (refresh tokens 1..MaxCreds)
MaxTicks == 1        \* clock ticks of one staleness window each
MaxIssued == 1       \* access tokens the OAuth provider issues
MaxRequests == 2     \* credentials handed out before new calls stop
MaxFaults == 1       \* storage operations that fail
MaxHeartbeats == 2   \* heartbeat chunks of one fake-streamed response
MaxFragments == 2    \* fragments of one real-streamed response

\* ------------------------------------------------------ program constants
loadInterval == 60000
ExpiryMargin == 300000
LongTTL == 3599       \* expires_in of a long-lived access token (seconds)
Epoch == 600000      \* Date.now() when the process starts (any value > 0)

NaN == 0 - 1         \* the value of x % 0 in JavaScript
Procs == {"a", "b"}  \* two concurrent requests
RT == 1..MaxCreds
Flavours == {"valid", "new"}
PermanentInGetToken == {403, 400}
Outcomes == {200, 400, 401, 403, 500}  \* 500 also stands for a network error
GrantTTL == {LongTTL}
IO == [loadRead : BOOLEAN, loadWrite : BOOLEAN, saveRead : BOOLEAN, saveWrite : BOOLEAN]
HistCap == 2 * MaxCreds

VARIABLES
  file,          \* data/accounts.json: sequence of stored credentials
  tokens,        \* this.tokens: sequence of object references (session ids)
  currentIndex,  \* this.currentIndex
  lastLoadTime,  \* this.lastLoadTime
  cachedData,    \* this.cachedData: [isNull, data]
  usageStats,    \* this.usageStats: refresh_token -> [requests, lastUsed]
  heap,          \* the pool-entry objects, by session id
  now,           \* Date.now()
  issued,        \* access tokens issued by the OAuth provider so far
  procs,         \* per request: position and locals of its manager call
  faults,        \* storage failures so far
  hist,          \* history: credentials returned without a refresh, 0 = reload
  ev             \* history: the last step of the manager and its inputs

VARIABLES
  req,           \* req.body of the chat-completion request
  hpc,           \* position of the request handler
  stream,        \* the handler's local stream flag
  reqToken,      \* what tokenManager.getToken() gave the handler
  res,           \* the response: headers, status, written chunks, body
  interval,      \* the heartbeat timer of fake streaming is running
  connected,     \* the client is still connected
  upstream,      \* calls made to the Upstream Requester and their result
  hasToolCall    \* the real-streaming branch's flag

pipeVars == <<req, hpc, stream, reqToken, res, interval, connected, upstream, hasToolCall>>

poolVars == <<file, tokens, currentIndex, lastLoadTime, cachedData, usageStats,
              heap, now, issued, procs, faults, hist, ev>>

\* ------------------------------------------------------------- data model
NoToken == 0
NullRet == [kind |-> "null", refresh_token |-> 0, access_token |-> 0, enable |-> FALSE, expired |-> FALSE, refreshed |-> FALSE]
NoRet == [NullRet EXCEPT !.kind = "none"]
IdleProc == [pc |-> "idle", op |-> "none", i |-> 0, totalTokens |-> 0, token |-> NoToken, ret |-> NoRet]

StoredCredential(rt, flavour) ==
  [refresh_token |-> rt,
   access_token  |-> rt,
   timestamp     |-> IF flavour = "valid" THEN Epoch ELSE 0,
   expires_in    |-> IF flavour = "valid" THEN LongTTL ELSE 0,
   enable        |-> TRUE,
   projectId     |-> IF flavour = "new" THEN 0 ELSE 100 + rt]

generateProjectId(rt) == 100 + rt

This == [file |-> file, tokens |-> tokens, currentIndex |-> currentIndex,
         lastLoadTime |-> lastLoadTime, cachedData |-> cachedData,
         usageStats |-> usageStats, heap |-> heap]

Max(a, b) == IF a > b THEN a ELSE b
Mod(a, b) == IF a = NaN \/ b = 0 THEN NaN ELSE a % b
Add1(a) == IF a = NaN THEN NaN ELSE a + 1
At(m, idx) == IF idx # NaN /\ idx < Len(m.tokens) THEN m.tokens[idx + 1] ELSE NoToken
PoolRts(m) == [k \in 1..Len(m.tokens) |-> m.heap[m.tokens[k]].refresh_token]
StripSession(obj) ==
  [refresh_token |-> obj.refresh_token, access_token |-> obj.access_token,
   timestamp |-> obj.timestamp, expires_in |-> obj.expires_in,
   enable |-> obj.enable, projectId |-> obj.projectId]
WithSession(t, sid) ==
  [refresh_token |-> t.refresh_token, access_token |-> t.access_token,
   timestamp |-> t.timestamp, expires_in |-> t.expires_in,
   enable |-> t.enable, projectId |-> t.projectId, sessionId |-> sid]

\* generateSessionId(): n identifiers that no live object carries
RECURSIVE FreshSids(_, _)
FreshSids(used, n) ==
  IF n = 0 THEN <<>>
  ELSE LET s == CHOOSE x \in 1..(Cardinality(used) + 1) : x \notin used
       IN <<s>> \o FreshSids(used \cup {s}, n - 1)

\* ------------------------------------------------------ TokenManager code
isExpiredAt(token, t) ==
  IF token.timestamp = 0 \/ token.expires_in = 0 THEN TRUE
  ELSE t >= token.timestamp + token.expires_in * 1000 - ExpiryMargin

isExpired(token) == isExpiredAt(token, now)

\* initialize(): io.loadRead / io.loadWrite say whether readFileSync (and
\* JSON.parse) and writeFileSync succeed
initialize(m, io) ==
  LET tokenArray == [k \in 1..Len(m.file) |->
                       IF m.file[k].projectId = 0
                       THEN [m.file[k] EXCEPT !.projectId = generateProjectId(m.file[k].refresh_token)]
                       ELSE m.file[k]]
      needSave == \E k \in 1..Len(m.file) : m.file[k].projectId = 0
      enabled == SelectSeq(tokenArray, LAMBDA t : t.enable # FALSE)
      sids == FreshSids(DOMAIN m.heap, Len(enabled))
  IN IF ~io.loadRead \/ (needSave /\ ~io.loadWrite)
     THEN [m EXCEPT !.tokens = <<>>]
     ELSE [m EXCEPT !.file = IF needSave THEN tokenArray ELSE @,
                    !.cachedData = [isNull |-> FALSE, data |-> tokenArray],
                    !.tokens = sids,
                    !.heap = [s \in (DOMAIN m.heap) \cup {sids[k] : k \in 1..Len(sids)} |->
                                IF s \in DOMAIN m.heap THEN m.heap[s]
                                ELSE WithSession(enabled[CHOOSE k \in 1..Len(sids) : sids[k] = s], s)],
                    !.currentIndex = 0,
                    !.lastLoadTime = now]

MustLoad(m) == ~(now - m.lastLoadTime < loadInterval /\ Len(m.tokens) > 0)

loadTokens(m, io) == IF MustLoad(m) THEN initialize(m, io) ELSE m

\* saveToFile(): the cached array is updated in place before the write
saveToFile(m, io) ==
  LET useCache == ~m.cachedData.isNull
      base == IF useCache THEN m.cachedData.data ELSE m.file
      rts == PoolRts(m)
      FirstIdx(rt) == CHOOSE k \in 1..Len(base) :
                        /\ base[k].refresh_token = rt
                        /\ \A j \in 1..(k - 1) : base[j].refresh_token # rt
      LastMem(rt) == CHOOSE j \in 1..Len(rts) :
                        /\ rts[j] = rt
                        /\ \A l \in (j + 1)..Len(rts) : rts[l] # rt
      allTokens == [k \in 1..Len(base) |->
                      IF k = FirstIdx(base[k].refresh_token)
                         /\ \E j \in 1..Len(rts) : rts[j] = base[k].refresh_token
                      THEN StripSession(m.heap[m.tokens[LastMem(base[k].refresh_token)]])
                      ELSE base[k]]
  IN IF ~useCache /\ ~io.saveRead THEN m
     ELSE [m EXCEPT !.file = IF io.saveWrite THEN allTokens ELSE @,
                    !.cachedData = IF useCache \/ io.saveWrite
                                   THEN [isNull |-> FALSE, data |-> allTokens] ELSE @]

ClampIndexNoClamp(idx, len) == idx
ClampIndex(idx, len) == Mod(idx, Max(len, 1))

disableToken(m, sid, io) ==
  LET m1 == [m EXCEPT !.heap[sid].enable = FALSE]
      m2 == saveToFile(m1, io)
      rt == m.heap[sid].refresh_token
      kept == SelectSeq(m2.tokens, LAMBDA s : m2.heap[s].refresh_token # rt)
  IN [m2 EXCEPT !.tokens = kept,
                !.currentIndex = ClampIndex(m2.currentIndex, Len(kept))]

\* refreshToken() after the provider answered 200
refreshOk(m, sid, at, ttl, io) ==
  saveToFile([m EXCEPT !.heap[sid].access_token = at,
                       !.heap[sid].expires_in = ttl,
                       !.heap[sid].timestamp = now], io)

recordUsage(m, sid) ==
  LET key == m.heap[sid].refresh_token
      old == IF key \in DOMAIN m.usageStats THEN m.usageStats[key].requests ELSE 0
  IN [m EXCEPT !.usageStats = [k \in (DOMAIN m.usageStats) \cup {key} |->
                                 IF k = key THEN [requests |-> old + 1]
                                 ELSE m.usageStats[k]]]

NextIndexStuck(m) == m.currentIndex
NextIndex(m) == Mod(Add1(m.currentIndex), Len(m.tokens))

\* getToken(): lines 150-155
serve(m, sid) == recordUsage([m EXCEPT !.currentIndex = NextIndex(m)], sid)

\* getToken(): the for loop from iteration i up to its next await or return
RECURSIVE getTokenLoop(_, _, _)
getTokenLoop(m, i, totalTokens) ==
  IF i >= totalTokens THEN [m |-> m, kind |-> "null", token |-> NoToken, i |-> i]
  ELSE LET token == At(m, m.currentIndex)
       IN IF token = NoToken
          THEN \* isExpired(undefined) throws a TypeError: the else branch of the catch
               getTokenLoop([m EXCEPT !.currentIndex = NextIndex(m)], i + 1, totalTokens)
          ELSE IF isExpired(m.heap[token])
          THEN [m |-> m, kind |-> "await", token |-> token, i |-> i]
          ELSE [m |-> serve(m, token), kind |-> "return", token |-> token, i |-> i]

\* getToken() from its first line
getTokenStart(m, io) ==
  LET m1 == loadTokens(m, io)
  IN IF Len(m1.tokens) = 0 THEN [m |-> m1, kind |-> "null", token |-> NoToken, i |-> 0, totalTokens |-> 0]
     ELSE [totalTokens |-> Len(m1.tokens)] @@ getTokenLoop(m1, 0, Len(m1.tokens))

\* getToken() resumed after await this.refreshToken(token)
getTokenResume(m, pr, outcome, at, ttl, io) ==
  IF outcome = 200
  THEN [m |-> serve(refreshOk(m, pr.token, at, ttl, io), pr.token),
        kind |-> "return", token |-> pr.token, i |-> pr.i]
  ELSE IF outcome \in PermanentInGetToken
  THEN LET m1 == disableToken(m, pr.token, io)
       IN IF Len(m1.tokens) = 0
          THEN [m |-> m1, kind |-> "null", token |-> NoToken, i |-> pr.i]
          ELSE getTokenLoop(m1, pr.i + 1, pr.totalTokens)
  ELSE getTokenLoop([m EXCEPT !.currentIndex = NextIndex(m)], pr.i + 1, pr.totalTokens)

\* handleRequestError(error, currentAccessToken) from its first line
handleRequestErrorStart(m, statusCode, currentAccessToken, io) ==
  IF statusCode # 403
  THEN [m |-> m, kind |-> "null", token |-> NoToken, i |-> 0, totalTokens |-> 0]
  ELSE LET currentToken == At(m, m.currentIndex)
       IN IF currentToken # NoToken /\ m.heap[currentToken].access_token = currentAccessToken
          THEN [m |-> m, kind |-> "awaitHre", token |-> currentToken, i |-> 0, totalTokens |-> 0]
          ELSE getTokenStart(m, io)

\* handleRequestError() resumed after await this.refreshToken(currentToken)
handleRequestErrorResume(m, pr, outcome, at, ttl, io) ==
  IF outcome = 200
  THEN [m |-> refreshOk(m, pr.token, at, ttl, io), kind |-> "return",
        token |-> pr.token, i |-> 0, totalTokens |-> 0]
  ELSE IF outcome = 403
  THEN getTokenStart(disableToken(m, pr.token, io), io)
  ELSE getTokenStart(m, io)

\* ------------------------------------------------------------ pool actions
TotalRequests == LET RECURSIVE Sum(_)
                     Sum(S) == IF S = {} THEN 0
                               ELSE LET k == CHOOSE x \in S : TRUE
                                    IN usageStats[k].requests + Sum(S \ {k})
                 IN Sum(DOMAIN usageStats)

Snapshot(m, sid, refreshed) ==
  [kind |-> "token",
   refresh_token |-> m.heap[sid].refresh_token,
   access_token |-> m.heap[sid].access_token,
   enable |-> m.heap[sid].enable,
   expired |-> isExpired(m.heap[sid]),
   refreshed |-> refreshed]

\* the state of the manager and of request p after a run r of its code
Commit(p, op, r, refreshed) ==
  LET pr == IF r.kind \in {"await", "awaitHre"}
            THEN [pc |-> IF r.kind = "await" THEN "gtRefresh" ELSE "hreRefresh",
                  op |-> op, i |-> r.i,
                  totalTokens |-> IF "totalTokens" \in DOMAIN r THEN r.totalTokens ELSE procs[p].totalTokens,
                  token |-> r.token, ret |-> NoRet]
            ELSE [IdleProc EXCEPT !.ret = IF r.kind = "return" THEN Snapshot(r.m, r.token, refreshed)
                                  ELSE NullRet]
      procs2 == [procs EXCEPT ![p] = pr]
      live == {r.m.tokens[k] : k \in 1..Len(r.m.tokens)} \cup ({procs2[q].token : q \in Procs} \ {NoToken})
  IN /\ file' = r.m.file
     /\ tokens' = r.m.tokens
     /\ currentIndex' = r.m.currentIndex
     /\ lastLoadTime' = r.m.lastLoadTime
     /\ cachedData' = r.m.cachedData
     /\ usageStats' = r.m.usageStats
     /\ heap' = [s \in live |-> r.m.heap[s]]
     /\ procs' = procs2

Capped(h) == IF Len(h) > HistCap THEN SubSeq(h, Len(h) - HistCap + 1, Len(h)) ELSE h

\* the storage outcomes a run can meet: at most one operation fails, and only
\* while the fault budget lasts
Event(act, p, outcome, rt, io) == [act |-> act, outcome |-> outcome, rt |-> rt]

AllOk == [loadRead |-> TRUE, loadWrite |-> TRUE, saveRead |-> TRUE, saveWrite |-> TRUE]
NumFailed(io) == Cardinality({f \in DOMAIN io : ~io[f]})
IOs == {io \in IO : faults + NumFailed(io) <= MaxFaults}

\* a request calls getToken()
GetTokenCall(p) ==
  /\ procs[p].pc = "idle"
  /\ TotalRequests < MaxRequests
  /\ \E io \in IOs :
       LET r == getTokenStart(This, io)
           loaded == MustLoad(This)
       IN /\ io # AllOk => r # getTokenStart(This, AllOk)
          /\ faults' = faults + NumFailed(io)
          /\ ev' = Event("getToken", p, 0, 0, io)
          /\ Commit(p, "getToken", r, FALSE)
          /\ hist' = IF r.kind # "return" THEN <<>>
                     ELSE LET rt == r.m.heap[r.token].refresh_token
                          IN IF ~loaded THEN Capped(Append(hist, rt))
                             ELSE IF PoolRts(r.m) = PoolRts(This)
                             THEN Capped(hist \o <<0, rt>>)
                             ELSE <<rt>>
  /\ UNCHANGED <<now, issued>>

\* the OAuth provider answers the refresh a request is waiting for
RefreshDone(p) ==
  /\ procs[p].pc \in {"gtRefresh", "hreRefresh"}
  /\ \E outcome \in Outcomes, ttl \in GrantTTL, io \in IOs :
       /\ outcome = 200 => issued < MaxIssued
       /\ outcome # 200 => ttl = LongTTL
       /\ LET at == MaxCreds + issued + 1
              Run(o) == IF procs[p].pc = "gtRefresh"
                        THEN getTokenResume(This, procs[p], outcome, at, ttl, o)
                        ELSE handleRequestErrorResume(This, procs[p], outcome, at, ttl, o)
              r == Run(io)
          IN /\ io # AllOk => r # Run(AllOk)
             /\ faults' = faults + NumFailed(io)
             /\ ev' = Event(IF procs[p].pc = "gtRefresh" THEN "getTokenRefresh" ELSE "handleRequestErrorRefresh",
                            p, outcome, heap[procs[p].token].refresh_token, io)
             /\ Commit(p, procs[p].op, r, outcome = 200)
             /\ issued' = IF outcome = 200 THEN issued + 1 ELSE issued
  /\ hist' = <<>>
  /\ UNCHANGED now

\* the completion call of a request failed: handleRequestError(error, token)
HandleRequestError(p) ==
  /\ procs[p].pc = "idle"
  /\ procs[p].ret.kind = "token"
  /\ TotalRequests < MaxRequests
  /\ \E statusCode \in {401, 403, 500}, io \in IOs :
       LET Run(o) == handleRequestErrorStart(This, statusCode, procs[p].ret.access_token, o)
       IN /\ io # AllOk => Run(io) # Run(AllOk)
          /\ faults' = faults + NumFailed(io)
          /\ ev' = Event("handleRequestError", p, statusCode, procs[p].ret.refresh_token, io)
          /\ Commit(p, "handleRequestError", Run(io), FALSE)
  /\ hist' = <<>>
  /\ UNCHANGED <<now, issued>>

Tick ==
  /\ now < Epoch + MaxTicks * loadInterval
  /\ now' = now + loadInterval
  /\ UNCHANGED <<file, tokens, currentIndex, lastLoadTime, cachedData, usageStats,
                 heap, issued, procs, faults, hist, ev>>

\* an external writer (the admin dashboard, npm run login) appends an account
ExternalAppend ==
  /\ \E rt \in RT :
       /\ \A k \in 1..Len(file) : file[k].refresh_token # rt
       /\ file' = Append(file, StoredCredential(rt, "new"))
  /\ UNCHANGED <<tokens, currentIndex, lastLoadTime, cachedData, usageStats,
                 heap, now, issued, procs, faults, hist, ev>>

\* an external writer re-enables a disabled account
ExternalEnable ==
  /\ \E k \in 1..Len(file) :
       /\ file[k].enable = FALSE
       /\ file' = [file EXCEPT ![k].enable = TRUE]
  /\ UNCHANGED <<tokens, currentIndex, lastLoadTime, cachedData, usageStats,
                 heap, now, issued, procs, faults, hist, ev>>

\* new TokenManager(): the constructor's fields, then initialize()
Constructor(f, io) ==
  initialize([file |-> f, tokens |-> <<>>, currentIndex |-> 0,
              lastLoadTime |-> 0,
              cachedData |-> [isNull |-> TRUE, data |-> <<>>],
              usageStats |-> <<>>, heap |-> <<>>], io)

InitPool ==
  /\ now = Epoch
  /\ issued = 0
  /\ procs = [p \in Procs |-> IdleProc]
  /\ hist = <<>>
  /\ \E n \in 0..MaxCreds, io \in {o \in IO : NumFailed(o) <= MaxFaults} :
       \E fl \in [1..n -> Flavours] :
          LET f == [k \in 1..n |-> StoredCredential(k, fl[k])]
              m == Constructor(f, io)
          IN /\ io # AllOk => m # Constructor(f, AllOk)
             /\ faults = NumFailed(io)
             /\ ev = Event("constructor", "none", 0, 0, io)
             /\ file = m.file
             /\ tokens = m.tokens
             /\ currentIndex = m.currentIndex
             /\ lastLoadTime = m.lastLoadTime
             /\ cachedData = m.cachedData
             /\ usageStats = m.usageStats
             /\ heap = m.heap

\* ------------------------------------------- POST /v1/chat/completions
Chunk(delta, finish_reason) == [delta |-> delta, finish_reason |-> finish_reason]
RoleChunk == Chunk("role", "null")
EmptyChunk == Chunk("empty", "null")
ToolCallsChunk == Chunk("tool_calls", "null")
ContentChunk == Chunk("content", "null")
ErrorChunk == Chunk("error", "null")
FinishChunk(reason) == Chunk("none", reason)
DoneLine == Chunk("[DONE]", "null")

NewResponse == [contentType |-> "none", headersSent |-> FALSE, statusCode |-> 200,
                writableEnded |-> FALSE, out |-> <<>>, json |-> "none"]
Result(status, content, toolCalls) == [status |-> status, content |-> content, toolCalls |-> toolCalls]
NoBody == [tools |-> FALSE, toolConfig |-> FALSE, generationConfig |-> "none",
           requestType |-> "none", imageInstruction |-> FALSE]
NoUpstream == [blocking |-> 0, streaming |-> 0, result |-> Result("none", FALSE, FALSE),
               requestBody |-> NoBody, fragments |-> <<>>]

Models == {[given |-> FALSE, fake |-> FALSE, image |-> FALSE]} \cup
          [given : {TRUE}, fake : BOOLEAN, image : BOOLEAN]
ShortLen == 5
LongLen == 25
ShortThreshold == 20
MessageLists == {<<ShortLen>>, <<LongLen>>, <<0>>, <<ShortLen, ShortLen>>}
Requests == [stream : {"absent", "true", "false"}, model : Models,
             messages : {[given |-> FALSE, list |-> <<>>]} \cup [given : {TRUE}, list : MessageLists],
             tools : BOOLEAN]

\* res.write(): sends the headers first if they were not sent yet
write(r, chunk) == [r EXCEPT !.headersSent = TRUE, !.out = Append(@, chunk)]
end(r) == [r EXCEPT !.headersSent = TRUE, !.writableEnded = TRUE]
json(r, status, body) ==
  [r EXCEPT !.headersSent = TRUE, !.writableEnded = TRUE, !.statusCode = status,
            !.contentType = "json", !.json = body]
setEventStream(r) == [r EXCEPT !.contentType = "event-stream"]

RECURSIVE writeAll(_, _)
writeAll(r, chunks) ==
  IF chunks = <<>> THEN r ELSE writeAll(write(r, Head(chunks)), Tail(chunks))

FinishReasonAlwaysStop(hasToolCalls) == "stop"
FinishReason(hasToolCalls) == IF hasToolCalls THEN "tool_calls" ELSE "stop"

\* the catch of the whole handler (lines 367-396)
OuterCatchAlwaysJson(r, streamFlag) ==
  IF ~r.headersSent THEN json(r, 500, "error") ELSE r
OuterCatchAlwaysStream(r, streamFlag) ==
  IF ~r.headersSent
  THEN end(writeAll(setEventStream(r), <<ErrorChunk, FinishChunk("stop"), DoneLine>>))
  ELSE r
OuterCatch(r, streamFlag) ==
  IF ~r.headersSent
  THEN IF streamFlag
       THEN end(writeAll(setEventStream(r), <<ErrorChunk, FinishChunk("stop"), DoneLine>>))
       ELSE json(r, 500, "error")
  ELSE r

isSingleShortMessageNever(messages) == FALSE
isSingleShortMessage(messages) ==
  /\ Len(messages) = 1
  /\ messages[1] # 0
  /\ messages[1] < ShortThreshold

\* generateRequestBody(messages, actualModel, params, tools, apiKey): the
\* translated request, as far as the handler changes it afterwards
generateRequestBody(r) ==
  [tools |-> r.tools, toolConfig |-> r.tools, generationConfig |-> "default",
   requestType |-> "agent", imageInstruction |-> FALSE]

\* the image model configuration (lines 183-191)
imageConfigKeepsTools(body) ==
  [body EXCEPT !.generationConfig = "candidateCount 1", !.requestType = "image_gen",
               !.imageInstruction = TRUE]
imageConfig(body) ==
  [body EXCEPT !.generationConfig = "candidateCount 1", !.requestType = "image_gen",
               !.imageInstruction = TRUE, !.tools = FALSE, !.toolConfig = FALSE]

\* which branch delivers the response (lines 194, 297, 305, 349)
deliveryModeIgnoresImage(isFakeStreaming, streamFlag, isImageModel) ==
  IF isFakeStreaming /\ streamFlag THEN "fake"
  ELSE IF streamFlag /\ ~isFakeStreaming THEN "real"
  ELSE "block"
deliveryMode(isFakeStreaming, streamFlag, isImageModel) ==
  IF isFakeStreaming /\ streamFlag THEN "fake"
  ELSE IF streamFlag /\ ~isFakeStreaming
       THEN IF isImageModel THEN "image" ELSE "real"
  ELSE "block"

Count(seq, x) == Cardinality({k \in 1..Len(seq) : seq[k] = x})

PipeUnchangedPool == UNCHANGED poolVars

\* the handler up to await tokenManager.getToken()
Receive ==
  /\ hpc = "received"
  /\ IF ~req.messages.given
     THEN /\ res' = json(res, 400, "messages is required")
          /\ hpc' = "done"
     ELSE /\ hpc' = "authorizing"
          /\ UNCHANGED res
  /\ UNCHANGED <<req, stream, reqToken, interval, connected, upstream, hasToolCall>>
  /\ PipeUnchangedPool

\* getToken() resolved: lines 152-351 up to the await of the upstream call
Authorized ==
  /\ hpc = "authorizing"
  /\ \E tok \in {"null", "token"} :
       /\ reqToken' = tok
       /\ IF tok = "null"
          THEN \* throw new Error(...): stream still has its default
               /\ res' = OuterCatch(res, stream)
               /\ hpc' = "done"
               /\ UNCHANGED <<stream, interval, upstream>>
          ELSE IF ~req.model.given
          THEN \* actualModel.includes() on undefined throws a TypeError
               /\ res' = OuterCatch(res, stream)
               /\ hpc' = "done"
               /\ UNCHANGED <<stream, interval, upstream>>
          ELSE LET isFakeStreaming == req.model.fake
                   isImageModel == req.model.image
                   stream2 == IF isSingleShortMessage(req.messages.list) /\ req.stream = "absent"
                              THEN FALSE ELSE stream
                   requestBody == IF isImageModel THEN imageConfig(generateRequestBody(req))
                                  ELSE generateRequestBody(req)
                   mode == deliveryMode(isFakeStreaming, stream2, isImageModel)
               IN /\ stream' = stream2
                  /\ IF mode = "fake"
                     THEN /\ res' = write([setEventStream(res) EXCEPT !.headersSent = TRUE], RoleChunk)
                          /\ interval' = TRUE
                          /\ upstream' = [upstream EXCEPT !.blocking = @ + 1, !.result = Result("pending", FALSE, FALSE),
                                                         !.requestBody = requestBody]
                          /\ hpc' = "fakeWait"
                     ELSE IF mode \in {"image", "real"}
                     THEN /\ res' = setEventStream(res)
                          /\ UNCHANGED interval
                          /\ IF mode = "image"
                             THEN /\ upstream' = [upstream EXCEPT !.blocking = @ + 1, !.result = Result("pending", FALSE, FALSE),
                                                         !.requestBody = requestBody]
                                  /\ hpc' = "imageWait"
                             ELSE /\ upstream' = [upstream EXCEPT !.streaming = @ + 1, !.result = Result("pending", FALSE, FALSE),
                                                         !.requestBody = requestBody]
                                  /\ hpc' = "streamWait"
                     ELSE /\ upstream' = [upstream EXCEPT !.blocking = @ + 1, !.result = Result("pending", FALSE, FALSE),
                                                         !.requestBody = requestBody]
                          /\ hpc' = "blockWait"
                          /\ UNCHANGED <<res, interval>>
  /\ UNCHANGED <<req, connected, hasToolCall>>
  /\ PipeUnchangedPool

\* sendEmptyChunk, fired by setInterval(sendEmptyChunk, 3000)
SendEmptyChunk ==
  /\ interval
  /\ Count(res.out, EmptyChunk) < MaxHeartbeats
  /\ res' = IF ~res.writableEnded THEN write(res, EmptyChunk) ELSE res
  /\ UNCHANGED <<req, hpc, stream, reqToken, interval, connected, upstream, hasToolCall>>
  /\ PipeUnchangedPool

\* fake streaming: generateAssistantResponseNoStream() returned
FakeDone ==
  /\ hpc = "fakeWait"
  /\ \E hasContent \in BOOLEAN, hasToolCalls \in BOOLEAN :
       /\ interval' = FALSE
       /\ res' = end(writeAll(res,
                    (IF hasToolCalls THEN <<ToolCallsChunk>> ELSE <<>>)
                    \o (IF hasContent THEN <<ContentChunk>> ELSE <<>>)
                    \o <<FinishChunk(FinishReason(hasToolCalls)), DoneLine>>))
       /\ upstream' = [upstream EXCEPT !.result = Result("ok", hasContent, hasToolCalls)]
  /\ hpc' = "done"
  /\ UNCHANGED <<req, stream, reqToken, connected, hasToolCall>>
  /\ PipeUnchangedPool

\* the catch of the fake-streaming try, after clearInterval (lines 274-292)
FakeCatchSilent(r) == r
FakeCatch(r) ==
  IF ~r.writableEnded
  THEN end(writeAll(r, <<ErrorChunk, FinishChunk("stop"), DoneLine>>))
  ELSE r

\* fake streaming: generateAssistantResponseNoStream() raised
FakeFail ==
  /\ hpc = "fakeWait"
  /\ interval' = FALSE
  /\ res' = FakeCatch(res)
  /\ upstream' = [upstream EXCEPT !.result = Result("failed", FALSE, FALSE)]
  /\ hpc' = "done"
  /\ UNCHANGED <<req, stream, reqToken, connected, hasToolCall>>
  /\ PipeUnchangedPool

\* image model under streaming: the blocking call returned
ImageDone ==
  /\ hpc = "imageWait"
  /\ res' = end(writeAll(res, <<ContentChunk, FinishChunk("stop"), DoneLine>>))
  /\ upstream' = [upstream EXCEPT !.result = Result("ok", TRUE, FALSE)]
  /\ hpc' = "done"
  /\ UNCHANGED <<req, stream, reqToken, interval, connected, hasToolCall>>
  /\ PipeUnchangedPool

\* the awaited upstream call raised outside the fake-streaming try
UpstreamFail ==
  /\ hpc \in {"imageWait", "streamWait", "blockWait"}
  /\ res' = OuterCatch(res, stream)
  /\ upstream' = [upstream EXCEPT !.result = Result("failed", FALSE, FALSE)]
  /\ hpc' = "done"
  /\ UNCHANGED <<req, stream, reqToken, interval, connected, hasToolCall>>
  /\ PipeUnchangedPool

\* the delta of the chunk written for one fragment (lines 326-328)
DeltaAlwaysContent(type) == ContentChunk
Delta(type) == IF type = "tool_calls" THEN ToolCallsChunk ELSE ContentChunk

\* real streaming: the callback passed to generateAssistantResponse()
StreamCallback ==
  /\ hpc = "streamWait"
  /\ Len(res.out) < MaxFragments
  /\ \E type \in {"tool_calls", "content"} :
       /\ hasToolCall' = (hasToolCall \/ type = "tool_calls")
       /\ res' = write(res, Delta(type))
       /\ upstream' = [upstream EXCEPT !.fragments = Append(@, type)]
  /\ UNCHANGED <<req, hpc, stream, reqToken, interval, connected>>
  /\ PipeUnchangedPool

\* real streaming: generateAssistantResponse() returned
StreamDone ==
  /\ hpc = "streamWait"
  /\ res' = end(writeAll(res, <<FinishChunk(FinishReason(hasToolCall)), DoneLine>>))
  /\ upstream' = [upstream EXCEPT !.result = Result("ok", TRUE, hasToolCall)]
  /\ hpc' = "done"
  /\ UNCHANGED <<req, stream, reqToken, interval, connected, hasToolCall>>
  /\ PipeUnchangedPool

\* non-streaming: generateAssistantResponseNoStream() returned
BlockDone ==
  /\ hpc = "blockWait"
  /\ \E hasContent \in BOOLEAN, hasToolCalls \in BOOLEAN :
       /\ res' = json(res, 200, IF hasToolCalls THEN "chat.completion tool_calls" ELSE "chat.completion stop")
       /\ upstream' = [upstream EXCEPT !.result = Result("ok", hasContent, hasToolCalls)]
  /\ hpc' = "done"
  /\ UNCHANGED <<req, stream, reqToken, interval, connected, hasToolCall>>
  /\ PipeUnchangedPool

\* the client closes the connection while the response is open
ClientDisconnect ==
  /\ connected
  /\ hpc # "received"
  /\ ~res.writableEnded
  /\ connected' = FALSE
  /\ UNCHANGED <<req, hpc, stream, reqToken, res, interval, upstream, hasToolCall>>
  /\ PipeUnchangedPool

PipeIdle ==
  /\ req = [stream |-> "absent", model |-> [given |-> FALSE, fake |-> FALSE, image |-> FALSE],
            messages |-> [given |-> FALSE, list |-> <<>>], tools |-> FALSE]
  /\ hpc = "idle"
  /\ stream = TRUE
  /\ reqToken = "none"
  /\ res = NewResponse
  /\ interval = FALSE
  /\ connected = TRUE
  /\ upstream = NoUpstream
  /\ hasToolCall = FALSE

\* one request arrives; the manager is left out (getToken() is an input)
InitPipe ==
  /\ req \in Requests
  /\ hpc = "received"
  /\ stream = (req.stream # "false")
  /\ reqToken = "none"
  /\ res = NewResponse
  /\ interval = FALSE
  /\ connected = TRUE
  /\ upstream = NoUpstream
  /\ hasToolCall = FALSE
  /\ now = Epoch
  /\ issued = 0
  /\ procs = [p \in Procs |-> IdleProc]
  /\ hist = <<>>
  /\ faults = 0
  /\ ev = Event("constructor", "none", 0, 0, AllOk)
  /\ LET m == Constructor(<<>>, AllOk)
     IN /\ file = m.file
        /\ tokens = m.tokens
        /\ currentIndex = m.currentIndex
        /\ lastLoadTime = m.lastLoadTime
        /\ cachedData = m.cachedData
        /\ usageStats = m.usageStats
        /\ heap = m.heap

NextPipe ==
  \/ Receive
  \/ Authorized
  \/ SendEmptyChunk
  \/ FakeDone
  \/ FakeFail
  \/ ImageDone
  \/ UpstreamFail
  \/ StreamCallback
  \/ StreamDone
  \/ BlockDone
  \/ ClientDisconnect

\* two concurrent requests against the manager, the clock and failing storage
NextPool ==
  \/ \E p \in Procs : GetTokenCall(p) /\ UNCHANGED pipeVars
  \/ \E p \in Procs : RefreshDone(p) /\ UNCHANGED pipeVars
  \/ \E p \in Procs : HandleRequestError(p) /\ UNCHANGED pipeVars
  \/ Tick /\ UNCHANGED pipeVars

\* one request at a time, and an external writer of the store
NextExt ==
  \/ GetTokenCall("a") /\ UNCHANGED pipeVars
  \/ RefreshDone("a") /\ UNCHANGED pipeVars
  \/ HandleRequestError("a") /\ UNCHANGED pipeVars
  \/ Tick /\ UNCHANGED pipeVars
  \/ ExternalAppend /\ UNCHANGED pipeVars
  \/ ExternalEnable /\ UNCHANGED pipeVars

vars == <<file, tokens, currentIndex, lastLoadTime, cachedData, usageStats,
          heap, now, issued, procs, faults, hist, ev,
          req, hpc, stream, reqToken, res, interval, connected, upstream, hasToolCall>>

Init == InitPool /\ PipeIdle

Spec == Init /\ [][NextPool]_vars

SpecExt == Init /\ [][NextExt]_vars

SpecPipe == InitPipe /\ [][NextPipe]_vars

\* ------------------------------------------------------------ properties
PoolNow == PoolRts(This)
PoolSet == {PoolNow[k] : k \in 1..Len(PoolNow)}
RingNext(rt) == LET k == CHOOSE j \in 1..Len(PoolNow) : PoolNow[j] = rt
                IN PoolNow[(k % Len(PoolNow)) + 1]
Returns(h) == SelectSeq(h, LAMBDA x : x # 0)
Awaiting(p) == procs[p].pc \in {"gtRefresh", "hreRefresh"}
StoredOf(f, rt) == {f[k] : k \in {j \in 1..Len(f) : f[j].refresh_token = rt}}

\* C1 (as stated): consecutive getToken() calls on a pool of valid credentials
\* return the credentials in ring order, each once before any repeats, also
\* when the store is reloaded between two of the calls.
C1_RingAcrossReloads ==
  LET R == Returns(hist)
  IN \A i \in 1..(Len(R) - 1) : R[i + 1] = RingNext(R[i])

\* C1 (amended): between two reloads of the store, consecutive getToken() calls
\* on a pool of valid credentials return the credentials in ring order and leave
\* the cursor on the successor of the last one returned; the first call after
\* a reload returns the first credential of the pool.
C1_RingBetweenReloads ==
  /\ \A i \in 1..(Len(hist) - 1) :
       /\ (hist[i] # 0 /\ hist[i + 1] # 0) => hist[i + 1] = RingNext(hist[i])
       /\ (hist[i] = 0) => hist[i + 1] = PoolNow[1]
  /\ Len(hist) > 0 => PoolNow[currentIndex + 1] = RingNext(hist[Len(hist)])

C1_Witness ==
  /\ Len(tokens) >= 2
  /\ Len(hist) >= 2
  /\ hist[Len(hist)] # 0
  /\ hist[Len(hist) - 1] # 0
  /\ currentIndex = 0

\* C2: whenever the pool is non-empty the cursor is an index into it.
C2_CursorInRange ==
  Len(tokens) > 0 => currentIndex \in 0..(Len(tokens) - 1)

C2_Witness ==
  /\ ev.act = "getTokenRefresh"
  /\ ev.outcome = 403
  /\ Len(tokens) > 0
  /\ \E p \in Procs : Awaiting(p) /\ procs[p].token \notin {tokens[k] : k \in 1..Len(tokens)}

\* C3: a refresh inside getToken() that fails with 401 or 403 removes the
\* credential from the pool, records it as disabled in the store and leaves
\* the stored fields of every other credential unchanged.
C3_PermanentFailureDisables ==
  [][(ev'.act = "getTokenRefresh" /\ ev'.outcome \in {401, 403} /\ procs' # procs)
       => /\ \A k \in 1..Len(tokens') : heap'[tokens'[k]].refresh_token # ev'.rt
          /\ \A c \in StoredOf(file', ev'.rt) : c.enable = FALSE
          /\ \A k \in 1..Len(file) :
               file[k].refresh_token # ev'.rt => file'[k] = file[k]]_vars

\* C4: getToken() executions are serialized, so no two requests are waiting
\* for a refresh of the same credential at the same time.
C4_NoConcurrentRefresh ==
  \A p, q \in Procs :
    (p # q /\ procs[p].pc = "gtRefresh" /\ procs[q].pc = "gtRefresh")
      => heap[procs[p].token].refresh_token # heap[procs[q].token].refresh_token

\* C9: a step in which a storage read or write fails leaves the pool's
\* membership, its credentials' in-memory fields and the cursor as they were.
PoolView == [entries |-> [k \in 1..Len(tokens) |-> heap[tokens[k]]], cursor |-> currentIndex]
C9_StorageFailureKeepsPool ==
  [][faults' > faults => PoolView' = PoolView]_vars

\* C10: a persist done by a refresh or a disable inside getToken() keeps
\* every stored credential that is not in the in-memory pool, with its fields.
C10_PersistKeepsOthers ==
  [][(ev'.act = "getTokenRefresh" /\ procs' # procs)
       => \A k \in 1..Len(file) :
            (file[k].refresh_token \notin PoolSet /\ file[k].refresh_token # ev'.rt)
              => \E j \in 1..Len(file') : file'[j] = file[k]]_vars

\* ---- the request handler
TookToken == reqToken = "token" /\ req.model.given
FakeStreaming == TookToken /\ req.model.fake /\ stream
Heartbeats(n) == [k \in 1..n |-> EmptyChunk]
Terminal(withContent) ==
  (IF upstream.result.toolCalls THEN <<ToolCallsChunk>> ELSE <<>>)
  \o (IF withContent THEN <<ContentChunk>> ELSE <<>>)
  \o <<FinishChunk(IF upstream.result.toolCalls THEN "tool_calls" ELSE "stop"), DoneLine>>

\* C5 (as stated): a successful fake-streamed response is the role chunk,
\* heartbeats, an optional tool-call chunk, one content chunk, the finish chunk
\* and [DONE].
C5_FakeSequenceWithContent ==
  (hpc = "done" /\ FakeStreaming /\ upstream.result.status = "ok")
    => \E n \in 0..MaxHeartbeats :
         res.out = <<RoleChunk>> \o Heartbeats(n) \o Terminal(TRUE)

\* C5 (amended): a successful fake-streamed response is the role chunk,
\* heartbeats, a tool-call chunk if a tool call was returned, a content chunk
\* if the returned content is not empty, the finish chunk (tool_calls if a tool
\* call was returned, else stop) and [DONE]; the timer is stopped, the response
\* is ended and nothing follows.
C5_FakeSequence ==
  (hpc = "done" /\ FakeStreaming /\ upstream.result.status = "ok")
    => /\ \E n \in 0..MaxHeartbeats :
            res.out = <<RoleChunk>> \o Heartbeats(n) \o Terminal(upstream.result.content)
       /\ ~interval
       /\ res.writableEnded

C5_Witness ==
  /\ hpc = "done"
  /\ FakeStreaming
  /\ upstream.result.status = "ok"
  /\ upstream.result.toolCalls
  /\ ~upstream.result.content
  /\ Count(res.out, EmptyChunk) = MaxHeartbeats

\* C6: a streamed request whose upstream call failed ends with an error
\* chunk, a finish chunk and [DONE], and its response is ended.
C6_FailureClosesStream ==
  (hpc = "done" /\ res.contentType = "event-stream" /\ upstream.result.status = "failed")
    => /\ res.writableEnded
       /\ Len(res.out) >= 3
       /\ SubSeq(res.out, Len(res.out) - 2, Len(res.out)) = <<ErrorChunk, FinishChunk("stop"), DoneLine>>

C8_NoWriteAfterDisconnect ==
  [][~connected => (res'.out = res.out /\ ~interval')]_vars

\* ---- the manager, continued
ManagerStep == procs' # procs
Refreshed(p) == procs[p].ret.kind = "token" /\ procs[p].ret.refreshed

\* C11: when no storage operation fails and the credential is not disabled,
\* a refresh that succeeds inside getToken() returns the credential with its new, unexpired access token and
\* the store holds these values; a later getToken() call does not start another
\* refresh of a credential that was returned refreshed, also after a reload.
C11_RefreshedOnceAndPersisted ==
  [][/\ (ev'.act = "getTokenRefresh" /\ ev'.outcome = 200 /\ ManagerStep /\ faults' = 0
            /\ \A c \in StoredOf(file', ev'.rt) : c.enable)
          => \E p \in Procs :
               /\ procs[p].pc = "gtRefresh"
               /\ procs'[p].ret.kind = "token"
               /\ procs'[p].ret.refresh_token = ev'.rt
               /\ ~procs'[p].ret.expired
               /\ \E c \in StoredOf(file', ev'.rt) :
                    c.access_token = procs'[p].ret.access_token /\ ~isExpiredAt(c, now)
     /\ (ev'.act = "getToken" /\ ManagerStep /\ faults' = 0)
          => \A p, q \in Procs :
               (Refreshed(p) /\ procs[p].ret.enable /\ procs[q].pc = "idle" /\ procs'[q].pc = "gtRefresh")
                 => heap'[procs'[q].token].refresh_token # procs[p].ret.refresh_token]_vars

Moved(p) == procs'[p] # procs[p]
ReturnsNull(p) == procs'[p].pc = "idle" /\ procs'[p].ret.kind = "null"

\* C12: getToken() returns null when the pool is empty after its load, and
\* when the only credential of the pool it started with fails its refresh
\* with a permanent rejection (401 or 403); in the second case the pool is
\* empty when the call returns.
C12_NullOnEmptyOrAllRejected ==
  [][/\ (ev'.act = "getToken" /\ ManagerStep /\ tokens' = <<>>)
          => \A p \in Procs : Moved(p) => ReturnsNull(p)
     /\ (ev'.act = "getTokenRefresh" /\ ManagerStep /\ ev'.outcome \in {401, 403})
          => \A p \in Procs :
               (Moved(p) /\ procs[p].op = "getToken" /\ procs[p].totalTokens = 1)
                 => (ReturnsNull(p) /\ tokens' = <<>>)]_vars

CursorToken == At(This, currentIndex)
InPool(f, h, rt) == \E k \in 1..Len(f) : h[f[k]].refresh_token = rt

\* C13: handleRequestError(error, accessToken) called for a permanent
\* rejection (401 or 403): if the credential at the cursor has that access
\* token, a refresh of it is awaited, else the call continues as getToken();
\* a refresh that succeeds returns that credential, a refresh rejected with 401
\* or 403 removes it from the pool.
C13_AuthFailureRefreshesOnce ==
  [][/\ (ev'.act = "handleRequestError" /\ ManagerStep /\ ev'.outcome \in {401, 403})
          => \A p \in Procs : Moved(p) =>
               IF CursorToken # NoToken /\ heap[CursorToken].access_token = procs[p].ret.access_token
               THEN procs'[p].pc = "hreRefresh" /\ procs'[p].token = CursorToken
               ELSE /\ procs'[p].pc # "hreRefresh"
                    /\ (faults' = faults) =>
                         LET r == getTokenStart(This, AllOk)
                         IN /\ tokens' = r.m.tokens
                            /\ currentIndex' = r.m.currentIndex
                            /\ (r.kind = "null") = ReturnsNull(p)
     /\ (ev'.act = "handleRequestErrorRefresh" /\ ManagerStep)
          => \A p \in Procs : Moved(p) =>
               /\ (ev'.outcome = 200) =>
                    /\ procs'[p].pc = "idle"
                    /\ procs'[p].ret.kind = "token"
                    /\ procs'[p].ret.refresh_token = ev'.rt
                    /\ procs'[p].ret.refreshed
               /\ (ev'.outcome \in {401, 403}) => ~InPool(tokens', heap', ev'.rt)]_vars

EnabledRts(f) == LET e == SelectSeq(f, LAMBDA t : t.enable # FALSE)
                 IN [k \in 1..Len(e) |-> e[k].refresh_token]
Rejected(rt) ==
  /\ ManagerStep
  /\ ev'.act \in {"getTokenRefresh", "handleRequestErrorRefresh"}
  /\ ev'.outcome \in {400, 403}
  /\ ev'.rt = rt

\* C14: when no storage operation fails, (a) a credential disabled by a
\* rejected refresh is recorded as disabled in the store, (b) a reload yields
\* exactly the credentials the store records as enabled, as new objects with
\* session identifiers no live object carries, and (c) a credential the store
\* records as enabled (as after an external re-enabling) stays so until a
\* refresh of it is rejected, so the next reload contains it again.
C14_DisableReloadRoundTrip ==
  [][/\ \A rt \in RT : (Rejected(rt) /\ ev'.outcome = 403 /\ faults' = 0)
          => \A c \in StoredOf(file', rt) : c.enable = FALSE
     /\ (ev'.act = "getToken" /\ ManagerStep /\ MustLoad(This) /\ faults' = 0)
          => /\ PoolRts([tokens |-> tokens', heap |-> heap']) = EnabledRts(file')
             /\ \A k \in 1..Len(tokens') : tokens'[k] \notin DOMAIN heap
     /\ \A k \in 1..Len(file) :
          (faults' = 0 /\ file[k].enable /\ k <= Len(file') /\ ~file'[k].enable)
            => Rejected(file[k].refresh_token)]_vars

\* ---- the request handler, continued
OneShort == /\ req.messages.given
            /\ Len(req.messages.list) = 1
            /\ req.messages.list[1] < ShortThreshold
Dispatched == TookToken /\ hpc \notin {"received", "authorizing"}
NonStreamed == res.contentType # "event-stream" /\ res.out = <<>>

C16_ImageRequestHasNoTools ==
  (req.model.image /\ upstream.blocking + upstream.streaming > 0)
    => /\ ~upstream.requestBody.tools
       /\ ~upstream.requestBody.toolConfig
       /\ upstream.requestBody.generationConfig = "candidateCount 1"
       /\ upstream.requestBody.requestType = "image_gen"

C16_Witness ==
  /\ req.model.image
  /\ req.model.fake
  /\ req.tools
  /\ hpc = "fakeWait"
  /\ upstream.blocking = 1
  /\ upstream.requestBody.requestType = "image_gen"

DisabledByManager(rt) ==
  /\ ManagerStep
  /\ \/ ev'.act = "getTokenRefresh" /\ ev'.outcome \in PermanentInGetToken
     \/ ev'.act = "handleRequestErrorRefresh" /\ ev'.outcome = 403
  /\ ev'.rt = rt

\* C17: when no storage operation fails and nothing but the manager writes the
\* store, a credential the manager disables is recorded as disabled in the
\* store, a stored credential recorded as disabled stays so, and no call
\* returns a credential the store records as disabled, also when the store is
\* reloaded while the refresh that leads to the disablement is awaited.
C17_DisabledStaysDisabled ==
  [][faults' = 0 =>
       /\ \A rt \in RT : DisabledByManager(rt)
            => \A c \in StoredOf(file', rt) : c.enable = FALSE
       /\ \A k \in 1..Len(file) :
            (file[k].enable = FALSE /\ k <= Len(file')) => file'[k].enable = FALSE
       /\ \A p \in Procs :
            (Moved(p) /\ procs'[p].ret.kind = "token")
              => \A c \in StoredOf(file', procs'[p].ret.refresh_token) : c.enable # FALSE]_vars

\* C18: a fake-streamed request whose blocking upstream call failed has its
\* heartbeat timer stopped and its response ended, and the client received
\* the role chunk, heartbeats, then an error chunk, a finish chunk with
\* finish_reason stop and [DONE]; nothing is written to an ended response.
C18_FakeFailureClosesStream ==
  /\ [](( hpc = "done" /\ FakeStreaming /\ upstream.result.status = "failed")
          => /\ ~interval
             /\ res.writableEnded
             /\ \E n \in 0..MaxHeartbeats :
                  res.out = <<RoleChunk>> \o Heartbeats(n)
                            \o <<ErrorChunk, FinishChunk("stop"), DoneLine>>)
  /\ [][(FakeStreaming /\ res.writableEnded) => res'.out = res.out]_vars

C18_Witness ==
  /\ hpc = "done"
  /\ FakeStreaming
  /\ upstream.result.status = "failed"
  /\ Count(res.out, EmptyChunk) >= 1
  /\ res.writableEnded

Transient == Outcomes \ ({200, 401} \cup PermanentInGetToken)
AtCursor(p) == procs[p].pc = "gtRefresh" /\ CursorToken = procs[p].token
Advanced == Mod(Add1(currentIndex), Len(tokens))

C20_EachCredentialOnce ==
  /\ [](\A p \in Procs : procs[p].pc = "gtRefresh" => procs[p].i < procs[p].totalTokens)
  /\ [][\A p \in Procs :
          (procs[p].pc = "gtRefresh" /\ Moved(p) /\ ev'.act = "getTokenRefresh" /\ ev'.outcome # 200)
            => /\ procs'[p].pc = "gtRefresh"
                 => /\ procs'[p].i = procs[p].i + 1
                    /\ heap'[procs'[p].token].refresh_token # ev'.rt
               /\ procs'[p].ret.kind = "token" => procs'[p].ret.refresh_token # ev'.rt]_vars

\* ---- real streaming
RealStreamed == upstream.streaming = 1 /\ upstream.result.status = "ok"
FragmentChunks(fragments) == [k \in 1..Len(fragments) |-> Chunk(fragments[k], "null")]
AnyToolCall(fragments) == \E k \in 1..Len(fragments) : fragments[k] = "tool_calls"

\* C21: in real-streaming mode with a successful upstream call the chunks
\* written are the callback's fragments in the order they fired, one chunk per
\* fragment, then exactly one finish chunk whose finish_reason is tool_calls
\* iff a tool-call fragment was delivered, then the [DONE] terminator.
C21_RealStreamOrder ==
  /\ hpc = "streamWait" => res.out = FragmentChunks(upstream.fragments)
  /\ (hpc = "done" /\ RealStreamed)
       => /\ res.out = FragmentChunks(upstream.fragments)
                         \o <<FinishChunk(IF AnyToolCall(upstream.fragments)
                                          THEN "tool_calls" ELSE "stop"),
                              DoneLine>>
          /\ res.writableEnded
          /\ res.contentType = "event-stream"
          /\ upstream.blocking = 0

C21_Witness ==
  /\ hpc = "done"
  /\ RealStreamed
  /\ upstream.fragments = <<"content", "tool_calls">>

\* ---- image models
ImageRequest == req.model.given /\ req.model.image
Called == upstream.result.status # "none"
StreamDelivered == hpc = "done" /\ upstream.result.status = "ok" /\ res.contentType = "event-stream"
ContentPositions == {k \in 1..Len(res.out) : res.out[k] = ContentChunk}

NonStreamingMode == ~stream /\ (hpc = "blockWait" \/ (hpc = "done" /\ Called))

\* C23: in non-streaming mode (stream false, given or forced by the
\* short-message override) the client gets exactly one response body and never
\* an SSE chunk or terminator: one chat.completion JSON object when the blocking
\* call succeeds, one JSON error body with a 5xx status when it fails; the
\* Upstream Requester is invoked in blocking mode exactly once.
C23_NonStreamingOneBody ==
  NonStreamingMode =>
    /\ res.out = <<>>
    /\ res.contentType # "event-stream"
    /\ upstream.blocking = 1
    /\ upstream.streaming = 0
    /\ upstream.fragments = <<>>
    /\ hpc = "blockWait" => res = NewResponse
    /\ hpc = "done" =>
         /\ res.writableEnded
         /\ res.contentType = "json"
         /\ upstream.result.status = "ok"
              => /\ res.statusCode = 200
                 /\ res.json \in {"chat.completion stop", "chat.completion tool_calls"}
         /\ upstream.result.status = "failed"
              => /\ res.statusCode \in 500..599
                 /\ res.json = "error"
         /\ upstream.result.status \in {"ok", "failed"}

C23_Witness ==
  /\ hpc = "done"
  /\ NonStreamingMode
  /\ req.stream = "absent"
  /\ upstream.result.status = "failed"
  /\ res.statusCode = 500

\* ---- handleRequestError and the credential that was rejected
HoldsRejected(f, h, rt, at) ==
  \E k \in 1..Len(f) : h[f[k]].refresh_token = rt /\ h[f[k]].access_token = at

\* C24: getToken() returned credential T and the completion call made with T's
\* access token was rejected with 403: when handleRequestError(error,
\* T.access_token) returns, T has been refreshed (it carries a new access
\* token) or disabled; T is not in the pool with the rejected access token.
C24_RejectedCredentialHandled ==
  [][\A p \in Procs :
       /\ (ManagerStep /\ Moved(p) /\ ev'.act = "handleRequestError" /\ ev'.outcome = 403
             /\ procs'[p].pc = "idle")
            => ~HoldsRejected(tokens', heap', procs[p].ret.refresh_token, procs[p].ret.access_token)
       /\ (ManagerStep /\ Moved(p) /\ ev'.act = "handleRequestErrorRefresh"
             /\ procs'[p].pc = "idle")
            => ~HoldsRejected(tokens', heap', ev'.rt, heap[procs[p].token].access_token)]_vars

\* ---- what getToken() returns
ReturnsToken(p) == procs'[p].pc = "idle" /\ procs'[p].ret.kind = "token"

\* C25: every credential getToken() returns is, at the moment of the return,
\* enabled and not expired (it has a timestamp and a TTL, and now is before
\* timestamp + TTL * 1000 - 300000), the provider granting TTLs longer than the
\* margin; for every interleaving of concurrent getToken() calls and reloads.
C25_ReturnedEnabledAndFresh ==
  [][\A p \in Procs :
       (ManagerStep /\ Moved(p) /\ ev'.act \in {"getToken", "getTokenRefresh"} /\ ReturnsToken(p))
         => /\ procs'[p].ret.enable
            /\ ~procs'[p].ret.expired]_vars

====
